---- MODULE Spec2Model ----
(***************************************************************************)
(* Bar sampling of polars_trading (src/polars_trading/bars.py): time,      *)
(* tick, volume and dollar bars over a frame of trades.                    *)
(*                                                                         *)
(* Numbers.  The size column and every quantity derived from it are exact  *)
(* rationals held as integers in units of 1/SizeDen, so that the division  *)
(* amount / price of dollar_bars is exact; float rounding is not modelled. *)
(* A price of 0 stands for a null price (real prices are positive).        *)
(* Timestamps are integers; the calendar date of ts is ts \div DayLen.     *)
(*                                                                         *)
(* The column-name configuration (src/polars_trading/config.py) is the     *)
(* second part of the module: the context variable, the Config instances   *)
(* and the with-blocks open on them.                                       *)
(***************************************************************************)
EXTENDS Integers, Sequences, FiniteSets

\* ---- bounds of the model ----
MaxTrades == 2
MaxTs == 2
DayLen == 2
MaxPrice == 2
MaxSize == 3
MaxBarSize == 2
\* a second input class: one trade of a larger size and price, larger bars
LargeSize == 8
LargePrice == 3
LargeBarSize == 5

Symbols == {"A", "B"}

RECURSIVE Fact(_)
Fact(n) == IF n <= 1 THEN 1 ELSE n * Fact(n - 1)

\* common denominator of every size the drivers can produce
SizeDen == Fact(IF MaxPrice >= LargePrice THEN MaxPrice ELSE LargePrice)
Units(n) == n * SizeDen

IsNull(p) == p < 1

Trades ==
    [symbol : Symbols, ts : 0..MaxTs, price : 0..MaxPrice,
     size : {Units(k) : k \in 1..MaxSize}]

Frames == UNION {[1..n -> Trades] : n \in 0..MaxTrades}

LargeTrades ==
    [symbol : Symbols, ts : 0..MaxTs, price : 1..LargePrice,
     size : {Units(k) : k \in 1..LargeSize}]

LargeFrames == [1..1 -> LargeTrades]

VARIABLES
    df,             \* argument: the input frame, a sequence of trades in any order
    columns,        \* df.columns: the names of the columns the frame has
    kwargs,         \* the column-name keyword arguments the caller passed
    bar_size,       \* argument: the bar size (a duration for time_bars)
    split_by_date,  \* argument: whether partitions also key on the calendar date
    driver,         \* the driver that was called on the arguments, "none" before
    ohlcv,          \* the normalised frame: nulls dropped, sorted by timestamp
    rows,           \* the frame handed to group_by: one row per contribution
    agg,            \* the grouped frame, group keys still attached
    bars,           \* the returned frame: keys dropped, sorted by <timestamp>_end
    raised,         \* the exception the call ended with, "none" if it returned
    config_context, \* _config_context: the context variable, unset or a dict
    options,        \* Config._options of every Config instance
    token,          \* Config._token of every Config instance
    scopes,         \* the with-blocks now open, innermost last, each with the
                    \* configuration read when it was entered
    last,           \* history: the last Config operation and how it ended
    last_set,       \* history: per key, the latest Config.set since the last reset
    only_sets,      \* history: nothing but sets was called since the last reset
    after_reset     \* history: what followed the last Config.reset

bar_vars == <<df, columns, kwargs, bar_size, split_by_date, driver, ohlcv, rows,
              agg, bars, raised>>
config_vars == <<config_context, options, token, scopes, last, last_set,
                 only_sets, after_reset>>
vars == <<bar_vars, config_vars>>
args == <<df, columns, kwargs, bar_size, split_by_date>>

\* ---- generic helpers ----
Min2(a, b) == IF a <= b THEN a ELSE b
Idx(s) == [i \in 1..Len(s) |-> i]

RECURSIVE SumSeq(_)
SumSeq(s) == IF s = <<>> THEN 0 ELSE s[1] + SumSeq(Tail(s))

RECURSIVE Gcd(_, _)
Gcd(a, b) == IF b = 0 THEN a ELSE Gcd(b, a % b)

\* the float quotient n / d as a reduced fraction; 0/0 is NaN, kept as <<0, 0>>
Ratio(n, d) == IF d = 0 THEN <<0, 0>> ELSE <<n \div Gcd(n, d), d \div Gcd(n, d)>>

DateOf(ts) == ts \div DayLen
Truncate(ts, every) == ts - (ts % every)

\* ---- Trade Normalizer ----
\* mutant: null-price rows are kept
DropNullsKeepsAll(f) == f

DropNulls(f) == SelectSeq(f, LAMBDA r : ~IsNull(r.price))

Orderings(n) == {p \in [1..n -> 1..n] : \A i, j \in 1..n : i # j => p[i] # p[j]}

\* DataFrame.sort(timestamp_col): maintain_order is left at its default, so
\* rows with equal timestamps may come out in either order
SortOutcomes(f) ==
    {g \in {[i \in 1..Len(f) |-> f[p[i]]] : p \in Orderings(Len(f))} :
        \A i \in 1..Len(g) - 1 : g[i].ts <= g[i + 1].ts}

\* mutant: "__date" is never appended to over_cols
OverColsSymbolOnly(r, by_date) == <<r.symbol>>

OverCols(r, by_date) ==
    IF by_date THEN <<r.symbol, DateOf(r.ts)>> ELSE <<r.symbol>>

\* ---- OHLCV aggregation ----
MaxPriceOf(g) == CHOOSE p \in {g[i].price : i \in 1..Len(g)} :
                    \A i \in 1..Len(g) : g[i].price <= p
MinPriceOf(g) == CHOOSE p \in {g[i].price : i \in 1..Len(g)} :
                    \A i \in 1..Len(g) : g[i].price >= p

\* mutant: vwap is the plain mean of the prices
OhlcvExprMeanPrice(g) ==
    [symbol   |-> g[1].symbol,
     part     |-> g[1].part,
     id       |-> g[1].id,
     start    |-> g[1].ts,
     end      |-> g[Len(g)].ts,
     open     |-> g[1].price,
     high     |-> MaxPriceOf(g),
     low      |-> MinPriceOf(g),
     close    |-> g[Len(g)].price,
     vwap     |-> Ratio(SumSeq([i \in 1..Len(g) |-> g[i].price]), Len(g)),
     volume   |-> SumSeq([i \in 1..Len(g) |-> g[i].size]),
     n_trades |-> Len(g)]

\* mutant: n_trades counts the distinct timestamps of the group
OhlcvExprUniqueTs(g) ==
    [OhlcvExprMeanPrice(g) EXCEPT
        !.vwap = Ratio(SumSeq([i \in 1..Len(g) |-> g[i].size * g[i].price]),
                       SumSeq([i \in 1..Len(g) |-> g[i].size])),
        !.n_trades = Cardinality({g[i].ts : i \in 1..Len(g)})]

OhlcvExpr(g) ==
    [symbol   |-> g[1].symbol,
     part     |-> g[1].part,
     id       |-> g[1].id,
     start    |-> g[1].ts,
     end      |-> g[Len(g)].ts,
     open     |-> g[1].price,
     high     |-> MaxPriceOf(g),
     low      |-> MinPriceOf(g),
     close    |-> g[Len(g)].price,
     vwap     |-> Ratio(SumSeq([i \in 1..Len(g) |-> g[i].size * g[i].price]),
                        SumSeq([i \in 1..Len(g) |-> g[i].size])),
     volume   |-> SumSeq([i \in 1..Len(g) |-> g[i].size]),
     n_trades |-> Len(g)]

GroupKey(r) == <<r.part, r.id>>

\* positions of the first row of every group, in frame order
FirstOfGroup(f) ==
    SelectSeq(Idx(f), LAMBDA i : \A j \in 1..i - 1 : GroupKey(f[j]) # GroupKey(f[i]))

\* group_by(keys).agg(_ohlcv_expr): rows keep their frame order inside a group.
\* polars returns the groups in no fixed order and the final sort leaves bars of
\* equal <timestamp>_end in any order; the groups are listed here by first
\* appearance and SortByEnd keeps that order among equal ends. No property
\* below reads the order of bars of equal end.
GroupByAgg(f) ==
    LET firsts == FirstOfGroup(f)
    IN  [k \in 1..Len(firsts) |->
            OhlcvExpr(SelectSeq(f, LAMBDA r : GroupKey(r) = GroupKey(f[firsts[k]])))]

DropKeys(b) ==
    [symbol |-> b.symbol, start |-> b.start, end |-> b.end, open |-> b.open,
     high |-> b.high, low |-> b.low, close |-> b.close, vwap |-> b.vwap,
     volume |-> b.volume, n_trades |-> b.n_trades]

RECURSIVE InsertByEnd(_, _)
InsertByEnd(s, b) ==
    IF s = <<>> THEN <<b>>
    ELSE IF b.end < s[1].end THEN <<b>> \o s
    ELSE <<s[1]>> \o InsertByEnd(Tail(s), b)

RECURSIVE SortByEnd(_)
SortByEnd(s) ==
    IF s = <<>> THEN <<>>
    ELSE InsertByEnd(SortByEnd(SubSeq(s, 1, Len(s) - 1)), s[Len(s)])

\* mutant: the final sort is left out
OutputUnsorted(a) == [i \in 1..Len(a) |-> DropKeys(a[i])]

Output(a) == SortByEnd([i \in 1..Len(a) |-> DropKeys(a[i])])

\* ---- validate_columns (the decorator of the four drivers) ----
column_args == <<"timestamp_col", "price_col", "size_col", "symbol_col">>
\* the defaults of the drivers' signatures; timestamp_col has none
SignatureDefaults ==
    [a \in {"price_col", "size_col", "symbol_col"} |->
        CASE a = "price_col" -> "price"
          [] a = "size_col" -> "size"
          [] a = "symbol_col" -> "symbol"]

ColumnNames == {"ts_event", "price", "size", "symbol", "px"}
DefaultColumns == {"ts_event", "price", "size", "symbol"}
DefaultKwargs == [a \in {"timestamp_col"} |-> "ts_event"]
\* the keyword arguments of a call: timestamp_col given or forgotten, price_col
\* given or left to its default
KwargsChoices ==
    {[a \in d |-> IF a = "timestamp_col" THEN "ts_event" ELSE "px"] :
        d \in SUBSET {"timestamp_col", "price_col"}}

\* func_kwargs: the signature defaults updated with the caller's kwargs
FuncKwargs(kw) ==
    [a \in DOMAIN SignatureDefaults \cup DOMAIN kw |->
        IF a \in DOMAIN kw THEN kw[a] ELSE SignatureDefaults[a]]

\* mutant: only the timestamp column is looked for
MissingColumnsTimestampOnly(cols, kw) ==
    SelectSeq(<<FuncKwargs(kw)["timestamp_col"]>>, LAMBDA c : c \notin cols)

MissingColumns(cols, kw) ==
    SelectSeq([i \in 1..Len(column_args) |-> FuncKwargs(kw)[column_args[i]]],
              LAMBDA c : c \notin cols)

\* the exception the wrapper raises before it calls the driver, "none" if it
\* calls it. df is a frame in every call modelled, so the TypeError of a
\* first argument that is no frame does not arise.
validate_columns(cols, kw) ==
    IF \E i \in 1..Len(column_args) : column_args[i] \notin DOMAIN FuncKwargs(kw)
    THEN "KeyError"
    ELSE IF MissingColumns(cols, kw) # <<>> THEN "ValueError"
    ELSE "none"

\* the call ends with exception e, f being the normalised frame it had built
Raise(e, f) ==
    /\ raised' = e
    /\ ohlcv' = f
    /\ rows' = <<>>
    /\ agg' = <<>>
    /\ bars' = <<>>

\* no call was made yet
Fresh ==
    /\ driver = "none"
    /\ raised = "none"
    /\ ohlcv = <<>>
    /\ rows = <<>>
    /\ agg = <<>>
    /\ bars = <<>>

\* polars floor division of integers: a zero divisor gives null, never an error
Null == "null"
FloorDiv(a, b) ==
    IF b = 0 THEN Null
    ELSE IF b > 0 THEN a \div b
    ELSE (0 - a) \div (0 - b)

\* the bar_groups kernel refuses a bar size that is not positive
BarGroupsRejects(n) == n <= 0

\* ---- time_bars ----
\* mutant: the group is the truncated timestamp alone, the symbol forgotten
TimeRowsNoSymbol(f, every) ==
    [i \in 1..Len(f) |->
        [idx |-> i, symbol |-> f[i].symbol, ts |-> f[i].ts, price |-> f[i].price,
         size |-> f[i].size, part |-> <<>>,
         id |-> Truncate(f[i].ts, every)]]

TimeRows(f, every) ==
    [i \in 1..Len(f) |->
        [idx |-> i, symbol |-> f[i].symbol, ts |-> f[i].ts, price |-> f[i].price,
         size |-> f[i].size, part |-> <<f[i].symbol>>,
         id |-> Truncate(f[i].ts, every)]]

TimeBars ==
    /\ driver = "none"
    /\ bar_size > 0
    /\ driver' = "time"
    /\ IF validate_columns(columns, kwargs) # "none"
       THEN Raise(validate_columns(columns, kwargs), <<>>)
       ELSE \E sorted \in SortOutcomes(DropNulls(df)) :
                /\ ohlcv' = sorted
                /\ rows' = TimeRows(sorted, bar_size)
                /\ agg' = GroupByAgg(rows')
                /\ bars' = Output(agg')
                /\ raised' = "none"
    /\ UNCHANGED <<args, config_vars>>

\* ---- tick_bars ----
\* cum_count().over(over_cols): the 1-based rank of row i inside its partition
CumCount(f, i, by_date) ==
    Cardinality({j \in 1..i :
        OverCols(f[j], by_date) = OverCols(f[i], by_date)})

\* mutant: the "- 1" that makes the count start at 0 is missing
TickRowsFromOne(f, n, by_date) ==
    [i \in 1..Len(f) |->
        [idx |-> i, symbol |-> f[i].symbol, ts |-> f[i].ts, price |-> f[i].price,
         size |-> f[i].size, part |-> OverCols(f[i], by_date),
         id |-> FloorDiv(CumCount(f, i, by_date), n)]]

TickRows(f, n, by_date) ==
    [i \in 1..Len(f) |->
        [idx |-> i, symbol |-> f[i].symbol, ts |-> f[i].ts, price |-> f[i].price,
         size |-> f[i].size, part |-> OverCols(f[i], by_date),
         id |-> FloorDiv(CumCount(f, i, by_date) - 1, n)]]

TickBars ==
    /\ driver = "none"
    /\ driver' = "tick"
    /\ IF validate_columns(columns, kwargs) # "none"
       THEN Raise(validate_columns(columns, kwargs), <<>>)
       ELSE \E sorted \in SortOutcomes(DropNulls(df)) :
                /\ ohlcv' = sorted
                /\ rows' = TickRows(sorted, bar_size, split_by_date)
                /\ agg' = GroupByAgg(rows')
                /\ bars' = Output(agg')
                /\ raised' = "none"
    /\ UNCHANGED <<args, config_vars>>

\* ---- the bar_groups kernel ----
\* One {id, amount} struct per value: the group the value starts in and the
\* part of the value that group still takes.
BarGroups(values, n) ==
    [i \in 1..Len(values) |->
        LET start == SumSeq(SubSeq(values, 1, i - 1))
        IN  [id     |-> start \div n,
             amount |-> Min2(values[i], n - (start % n))]]

\* mutant: the .over(over_cols) is left out, the kernel runs on the whole frame
BarGroupsNoOver(f, metric, n, by_date) == BarGroups(metric, n)

\* _bar_groups_expr(metric, n).over(over_cols): the kernel runs on the
\* rows of each partition, in frame order, and row i gets its own struct back
BarGroupsOver(f, metric, n, by_date) ==
    [i \in 1..Len(f) |->
        LET mine == SelectSeq(Idx(f), LAMBDA j :
                        OverCols(f[j], by_date) = OverCols(f[i], by_date))
        IN  BarGroups([k \in 1..Len(mine) |-> metric[mine[k]]], n)
                [CumCount(f, i, by_date)]]

\* mutant: the final select keeps the size column, not the amount
SplitRowsKeepsSize(f) ==
    LET remainder ==
            SelectSeq(f, LAMBDA r : r.size # r.amount)
        stacked == f \o remainder
    IN  [k \in 1..Len(stacked) |->
            [idx |-> stacked[k].idx, symbol |-> stacked[k].symbol,
             ts |-> stacked[k].ts, price |-> stacked[k].price,
             size |-> stacked[k].size, part |-> stacked[k].part,
             id |-> IF k <= Len(f) THEN stacked[k].id ELSE stacked[k].id + 1]]

\* mutant: the filter size != amount is left out, every row gets a remainder
SplitRowsNoFilter(f) ==
    LET stacked ==
            f \o [k \in 1..Len(f) |->
                    [f[k] EXCEPT !.amount = f[k].size - f[k].amount,
                                 !.id = f[k].id + 1]]
    IN  [k \in 1..Len(stacked) |->
            [idx |-> stacked[k].idx, symbol |-> stacked[k].symbol,
             ts |-> stacked[k].ts, price |-> stacked[k].price,
             size |-> stacked[k].amount, part |-> stacked[k].part,
             id |-> stacked[k].id]]

\* mutant: the remainder rows are never stacked under the frame
SplitRowsNoRemainder(f) ==
    [k \in 1..Len(f) |->
        [idx |-> f[k].idx, symbol |-> f[k].symbol, ts |-> f[k].ts,
         price |-> f[k].price, size |-> f[k].amount, part |-> f[k].part,
         id |-> f[k].id]]

\* ohlcv.vstack(ohlcv.filter(size != amount).with_columns(size - amount, id + 1))
\* followed by the select that renames bar_group__amount to size
SplitRows(f) ==
    LET remainder ==
            SelectSeq(f, LAMBDA r : r.size # r.amount)
        stacked ==
            f \o [k \in 1..Len(remainder) |->
                    [remainder[k] EXCEPT !.amount = remainder[k].size - remainder[k].amount,
                                         !.id = remainder[k].id + 1]]
    IN  [k \in 1..Len(stacked) |->
            [idx |-> stacked[k].idx, symbol |-> stacked[k].symbol,
             ts |-> stacked[k].ts, price |-> stacked[k].price,
             size |-> stacked[k].amount, part |-> stacked[k].part,
             id |-> stacked[k].id]]

\* ---- volume_bars ----
VolumeGroups(f, n, by_date) ==
    LET g == BarGroupsOver(f, [i \in 1..Len(f) |-> f[i].size], Units(n),
                           by_date)
    IN  [i \in 1..Len(f) |->
            [idx |-> i, symbol |-> f[i].symbol, ts |-> f[i].ts, price |-> f[i].price,
             size |-> f[i].size, part |-> OverCols(f[i], by_date),
             id |-> g[i].id, amount |-> g[i].amount]]

VolumeBars ==
    /\ driver = "none"
    /\ driver' = "volume"
    /\ IF validate_columns(columns, kwargs) # "none"
       THEN Raise(validate_columns(columns, kwargs), <<>>)
       ELSE \E sorted \in SortOutcomes(DropNulls(df)) :
                IF BarGroupsRejects(bar_size)
                THEN Raise("ConfigurationError", sorted)
                ELSE /\ ohlcv' = sorted
                     /\ rows' = SplitRows(VolumeGroups(sorted, bar_size, split_by_date))
                     /\ agg' = GroupByAgg(rows')
                     /\ bars' = Output(agg')
                     /\ raised' = "none"
    /\ UNCHANGED <<args, config_vars>>

\* ---- dollar_bars ----
DollarVolume(r) == r.price * r.size

\* mutant: the dollar amount is not divided by the price
DollarGroupsNoTruediv(f, n, by_date) ==
    LET g == BarGroupsOver(f, [i \in 1..Len(f) |-> DollarVolume(f[i])],
                           Units(n), by_date)
    IN  [i \in 1..Len(f) |->
            [idx |-> i, symbol |-> f[i].symbol, ts |-> f[i].ts, price |-> f[i].price,
             size |-> f[i].size, part |-> OverCols(f[i], by_date),
             id |-> g[i].id, amount |-> g[i].amount]]

DollarGroups(f, n, by_date) ==
    LET g == BarGroupsOver(f, [i \in 1..Len(f) |-> DollarVolume(f[i])],
                           Units(n), by_date)
    IN  [i \in 1..Len(f) |->
            [idx |-> i, symbol |-> f[i].symbol, ts |-> f[i].ts, price |-> f[i].price,
             size |-> f[i].size, part |-> OverCols(f[i], by_date),
             id |-> g[i].id, amount |-> g[i].amount \div f[i].price]]

DollarBars ==
    /\ driver = "none"
    /\ driver' = "dollar"
    /\ IF validate_columns(columns, kwargs) # "none"
       THEN Raise(validate_columns(columns, kwargs), <<>>)
       ELSE \E sorted \in SortOutcomes(DropNulls(df)) :
                IF BarGroupsRejects(bar_size)
                THEN Raise("ConfigurationError", sorted)
                ELSE /\ ohlcv' = sorted
                     /\ rows' = SplitRows(DollarGroups(sorted, bar_size, split_by_date))
                     /\ agg' = GroupByAgg(rows')
                     /\ bars' = Output(agg')
                     /\ raised' = "none"
    /\ UNCHANGED <<args, config_vars>>

(***************************************************************************)
(* Config (src/polars_trading/config.py)                                   *)
(***************************************************************************)
\* ---- bounds of the configuration model ----
MaxInstances == 2
MaxDepth == 2

\* two of the eight recognised keys, and the names a caller may give them
Keys == {"open_column", "close_column"}
Values == {"o", "c"}
Instances == 1..MaxInstances

\* key.replace("_column", "") of Config.get, on the keys of the model
ColumnKey(key) ==
    CASE key = "open_column" -> "open"
      [] key = "close_column" -> "close"
      [] OTHER -> key

DEFAULT_COLUMN_NAMES ==
    [k \in {"open", "close"} |-> k]

\* a dict of options: a function from some of the keys to names
EmptyDict == [k \in {} |-> ""]
Dicts == UNION {[d -> Values] : d \in SUBSET Keys}
\* the options the Config instances of the model are built with
OptionChoices ==
    {[k \in {"open_column"} |-> "o"], [k \in Keys |-> "c"]}
\* {**a, **b}
Merge(a, b) ==
    [k \in DOMAIN a \cup DOMAIN b |-> IF k \in DOMAIN b THEN b[k] ELSE a[k]]

\* the context variable before any set, and after a set of d
Unset == [bound |-> FALSE, value |-> EmptyDict]
Bound(d) == [bound |-> TRUE, value |-> d]
\* _config_context.get({})
ContextGet(c) == IF c.bound THEN c.value ELSE EmptyDict

\* Config.get(key) under context variable c
Get(c, key) ==
    IF key \in DOMAIN ContextGet(c) THEN ContextGet(c)[key]
    ELSE IF ColumnKey(key) \in DOMAIN DEFAULT_COLUMN_NAMES
         THEN DEFAULT_COLUMN_NAMES[ColumnKey(key)]
         ELSE ""

\* name.endswith("_column") and f"{name}_column", on the names of the model
EndsWithColumn(name) == name \in Keys
WithColumn(name) ==
    CASE name = "open" -> "open_column"
      [] name = "close" -> "close_column"
      [] OTHER -> name

\* mutant: the attribute name itself is the key looked up
ColumnNamesGetattrRawKey(c, name) ==
    IF name \in DOMAIN ContextGet(c) THEN ContextGet(c)[name]
    ELSE IF ColumnKey(name) \in DOMAIN DEFAULT_COLUMN_NAMES
         THEN DEFAULT_COLUMN_NAMES[ColumnKey(name)]
         ELSE ""

\* ColumnNames.__getattr__(name) under context variable c
ColumnNamesGetattr(c, name) ==
    LET column_key == IF EndsWithColumn(name) THEN name ELSE WithColumn(name)
        default_key == IF EndsWithColumn(name) THEN ColumnKey(name) ELSE name
    IN  IF column_key \in DOMAIN ContextGet(c) THEN ContextGet(c)[column_key]
        ELSE IF default_key \in DOMAIN DEFAULT_COLUMN_NAMES
             THEN DEFAULT_COLUMN_NAMES[default_key]
             ELSE ""

\* what Config.get returns for every key of the model
View(c) == [k \in Keys |-> Get(c, k)]

\* Config._token: None until the instance is entered, then the token of its
\* latest entry, which holds the value to restore and whether it was used
None == [held |-> FALSE, old |-> Unset, used |-> FALSE]
Token(c) == [held |-> TRUE, old |-> c, used |-> FALSE]

Active(i) == \E j \in 1..Len(scopes) : scopes[j].inst = i

\* history kept of a key: the name of the latest Config.set since the last
\* reset ("" if none), the number of scopes of that moment that are still
\* open, and whether one of them has exited
NoSet == [name |-> "", depth |-> 0, exited |-> FALSE]

\* the record kept of the last Config operation: its name, the exception it
\* raised, whether the with-block it closed was left by an exception, and the
\* configuration read when that block was entered
Done(op, e, exc, view) == [op |-> op, raised |-> e, exc |-> exc, view |-> view]

\* mutant: the scope replaces the configuration by its own options
EnterOptionsReplaces(c, opts) == Bound(opts)

\* __enter__: updated = {**current, **self._options}
EnterOptions(c, opts) == Bound(Merge(ContextGet(c), opts))

\* mutant: the options given replace the configuration
SetOptionsReplaces(c, opts) == Bound(opts)

\* Config.set: updated = {**current, **options}
SetOptions(c, opts) == Bound(Merge(ContextGet(c), opts))

\* mutant: the exit leaves the context variable as it is
ContextResetKeeps(c, t) == c

\* _config_context.reset(token) with a token not used before
ContextReset(c, t) == t.old

\* mutant: reset leaves the context variable as it is
ResetContextKeeps(c) == c

\* Config.reset: _config_context.set({})
ResetContext(c) == Bound(EmptyDict)

\* with instance i: ... is entered
Enter(i) ==
    /\ Len(scopes) < MaxDepth
    /\ config_context' = EnterOptions(config_context, options[i])
    /\ token' = [token EXCEPT ![i] = Token(config_context)]
    /\ scopes' = Append(scopes, [inst |-> i, before |-> View(config_context)])
    /\ last' = Done("enter", "none", FALSE, View(Unset))
    /\ only_sets' = FALSE
    /\ after_reset' = "no"
    /\ UNCHANGED <<options, last_set, bar_vars>>

\* the scopes the program opens with a Config instance that is not active
EnterInactive == \E i \in Instances : ~Active(i) /\ Enter(i)

\* the innermost with-block is left, normally or by an exception; a token that
\* was used already makes ContextVar.reset raise RuntimeError
Exit ==
    /\ scopes # <<>>
    /\ \E exc \in BOOLEAN :
        LET top == scopes[Len(scopes)]
            t == token[top.inst]
            left == Len(scopes) - 1
        IN  /\ IF ~t.held
               THEN /\ last' = Done("exit", "none", exc, top.before)
                    /\ UNCHANGED <<config_context, token>>
               ELSE IF t.used
               THEN /\ last' = Done("exit", "RuntimeError", exc, top.before)
                    /\ UNCHANGED <<config_context, token>>
               ELSE /\ config_context' = ContextReset(config_context, t)
                    /\ token' = [token EXCEPT ![top.inst].used = TRUE]
                    /\ last' = Done("exit", "none", exc, top.before)
            /\ scopes' = SubSeq(scopes, 1, left)
            /\ last_set' =
                [k \in Keys |->
                    IF last_set[k].name # "" /\ last_set[k].depth > left
                    THEN [last_set[k] EXCEPT !.depth = left, !.exited = TRUE]
                    ELSE last_set[k]]
    /\ only_sets' = FALSE
    /\ after_reset' = IF after_reset = "no" THEN "no" ELSE "exits"
    /\ UNCHANGED <<options, bar_vars>>

\* the body shared by Config.set and the set_<name>_column methods
SetTo(op, opts) ==
    /\ config_context' = SetOptions(config_context, opts)
    /\ last' = Done(op, "none", FALSE, View(Unset))
    /\ last_set' =
        [k \in Keys |->
            IF k \in DOMAIN opts
            THEN [name |-> opts[k], depth |-> Len(scopes), exited |-> FALSE]
            ELSE last_set[k]]
    /\ after_reset' = "no"
    /\ UNCHANGED <<options, token, scopes, only_sets, bar_vars>>

\* Config.set(**options)
Set == \E opts \in Dicts : SetTo("set", opts)

\* Config.set_open_column(name), Config.set_close_column(name), ...
SetColumn == \E k \in Keys, v \in Values : SetTo("set_column", [x \in {k} |-> v])

\* Config.reset()
Reset ==
    /\ config_context' = ResetContext(config_context)
    /\ last' = Done("reset", "none", FALSE, View(Unset))
    /\ last_set' = [k \in Keys |-> NoSet]
    /\ only_sets' = TRUE
    /\ after_reset' = "immediately"
    /\ UNCHANGED <<options, token, scopes, bar_vars>>

\* the configuration of a freshly imported module, around given instances
ConfigStart(opts) ==
    /\ config_context = Unset
    /\ options \in opts
    /\ token = [i \in Instances |-> None]
    /\ scopes = <<>>
    /\ last = Done("none", "none", FALSE, View(Unset))
    /\ last_set = [k \in Keys |-> NoSet]
    /\ only_sets = TRUE
    /\ after_reset = "no"

\* the configuration of a program that never touches Config
NoConfig == ConfigStart({[i \in Instances |-> EmptyDict]})

\* the state before the call, for a given set of input frames and bar sizes
Start(frames, sizes) ==
    /\ df \in frames
    /\ bar_size \in sizes
    /\ split_by_date \in BOOLEAN
    /\ columns = DefaultColumns
    /\ kwargs = DefaultKwargs
    /\ Fresh

Init == Start(Frames, 1..MaxBarSize) /\ NoConfig

Next == TimeBars \/ TickBars \/ VolumeBars \/ DollarBars

Spec == Init /\ [][Next]_vars

\* single trades of larger sizes and prices, against larger bars
InitLarge == Start(LargeFrames, 1..LargeBarSize) /\ NoConfig

SpecLarge == InitLarge /\ [][Next]_vars

\* a third input class, for the checks made on the arguments: frames of one
\* symbol and one timestamp under any set of columns, any of the keyword
\* choices, and bar sizes on both sides of zero
MaxNegSize == 2

ArgTrades == [symbol : {"A"}, ts : {0}, price : 0..1, size : {Units(1)}]

ArgFrames == UNION {[1..n -> ArgTrades] : n \in 0..MaxTrades}

InitArgs ==
    /\ df \in ArgFrames
    /\ bar_size \in (0 - MaxNegSize)..MaxBarSize
    /\ split_by_date \in BOOLEAN
    /\ columns \in SUBSET ColumnNames
    /\ kwargs \in KwargsChoices
    /\ Fresh
    /\ NoConfig

SpecArgs == InitArgs /\ [][Next]_vars

\* the configuration alone: with-blocks on instances of any options, entered
\* while not active, and the class methods, with no driver call
InitConfig ==
    /\ Start({<<>>}, {1})
    /\ split_by_date
    /\ ConfigStart([Instances -> OptionChoices])

NextConfig == EnterInactive \/ Exit \/ Set \/ SetColumn \/ Reset

SpecConfig == InitConfig /\ [][NextConfig]_vars

\* the scopes of a decorated function: a Config instance used as a decorator
\* is entered on every call, also while a call of it is still running
EnterAny == \E i \in Instances : Enter(i)

\* the configuration under nested with-blocks and decorators: any instance
\* may be entered, also while it is active, and Config.reset may be called
\* between entries and exits
NextReentrant == EnterAny \/ Exit \/ Reset

SpecReentrant == InitConfig /\ [][NextReentrant]_vars

(***************************************************************************)
(* Properties                                                              *)
(***************************************************************************)
\* a driver was called and returned
Called == driver # "none" /\ raised = "none"
Splitting == driver \in {"volume", "dollar"}

\* the threshold metric of a row: price * size for dollar bars, size otherwise
Metric(r) == IF driver = "dollar" THEN r.price * r.size ELSE r.size
Threshold == Units(bar_size)

\* the total metric, size and price * size of a sequence of rows
SumMetric(s) == SumSeq([k \in 1..Len(s) |-> Metric(s[k])])
SumSize(s) == SumSeq([k \in 1..Len(s) |-> s[k].size])
SumPriceSize(s) == SumSeq([k \in 1..Len(s) |-> s[k].price * s[k].size])

\* the rows derived from trade i of the normalised frame
RowsOfTrade(i) == SelectSeq(rows, LAMBDA r : r.idx = i)
\* the rows contributing to bar b of the grouped frame
RowsOfBar(b) == SelectSeq(rows, LAMBDA r : GroupKey(r) = GroupKey(b))
\* b is not the last bar of its partition
HasLaterBar(b) == \E k \in 1..Len(agg) : agg[k].part = b.part /\ agg[k].id > b.id

\* C1. Conservation: in a volume_bars or dollar_bars run the metric of the rows
\* derived from a trade (size, or price * size) sums to the trade's own metric.
C1_Conservation ==
    Splitting =>
        \A i \in 1..Len(ohlcv) : SumMetric(RowsOfTrade(i)) = Metric(ohlcv[i])

C1_Witness ==
    /\ driver = "dollar"
    /\ \E i \in 1..Len(ohlcv) :
        /\ Len(RowsOfTrade(i)) > 1
        /\ ohlcv[i].price > 1
        /\ SumMetric(RowsOfTrade(i)) = Metric(ohlcv[i])

\* C2. Threshold bound: in a volume_bars or dollar_bars run no bar totals more
\* than bar_size and every bar but the last of its partition totals bar_size.
C2_ThresholdBound ==
    Splitting =>
        \A k \in 1..Len(agg) :
            LET total == SumMetric(RowsOfBar(agg[k]))
            IN  /\ total <= Threshold
                /\ HasLaterBar(agg[k]) => total = Threshold

TsOf(g) == {g[k].ts : k \in 1..Len(g)}
Earliest(g) == CHOOSE t \in TsOf(g) : \A u \in TsOf(g) : t <= u
Latest(g) == CHOOSE t \in TsOf(g) : \A u \in TsOf(g) : t >= u

\* bar b against its contributing rows; among rows of equal timestamp any may
\* count as the first or the last
OhlcOf(b) ==
    LET g == RowsOfBar(b)
    IN  /\ b.start = Earliest(g)
        /\ b.end = Latest(g)
        /\ \E k \in 1..Len(g) : g[k].ts = Earliest(g) /\ b.open = g[k].price
        /\ \E k \in 1..Len(g) : g[k].ts = Latest(g) /\ b.close = g[k].price
        /\ \A k \in 1..Len(g) : b.low <= g[k].price /\ g[k].price <= b.high
        /\ \E k \in 1..Len(g) : b.high = g[k].price
        /\ \E k \in 1..Len(g) : b.low = g[k].price

\* C3. OHLC correctness: every bar of every driver opens and starts at its
\* chronologically first contributing row, closes and ends at its last one,
\* and has the maximum and minimum price of its rows as high and low.
C3_OhlcCorrect == Called => \A k \in 1..Len(agg) : OhlcOf(agg[k])

\* C4. No inter-partition leakage: every bar of tick_bars, volume_bars and
\* dollar_bars is built from rows of one symbol, and with split_by_date of one
\* calendar date, the symbol and date of the trades the rows derive from.
C4_NoLeakage ==
    driver \in {"tick", "volume", "dollar"} =>
        \A k \in 1..Len(agg) :
            LET g == RowsOfBar(agg[k])
            IN  \A i, j \in 1..Len(g) :
                    /\ ohlcv[g[i].idx].symbol = agg[k].symbol
                    /\ ohlcv[g[i].idx].symbol = ohlcv[g[j].idx].symbol
                    /\ split_by_date =>
                        /\ DateOf(ohlcv[g[i].idx].ts) = DateOf(ohlcv[g[j].idx].ts)
                        /\ DateOf(ohlcv[g[i].idx].ts) = DateOf(agg[k].start)
                        /\ DateOf(ohlcv[g[i].idx].ts) = DateOf(agg[k].end)

\* a trade of one day is split by the threshold and the same symbol trades on
\* a later day
C4_Witness ==
    /\ driver = "volume"
    /\ split_by_date
    /\ \E i, j \in 1..Len(ohlcv) :
        /\ Len(RowsOfTrade(i)) > 1
        /\ ohlcv[i].symbol = ohlcv[j].symbol
        /\ DateOf(ohlcv[i].ts) < DateOf(ohlcv[j].ts)
    /\ C4_NoLeakage

\* the scenario: volume_bars with bar_size = 5 on the single trade
\* {price 3.0, size 8}
C5_Scenario ==
    /\ driver = "volume"
    /\ bar_size = 5
    /\ Len(df) = 1
    /\ df[1].price = 3
    /\ df[1].size = Units(8)

\* two bars, the earlier group with volume first and the later with volume
\* second, each of one row at the one price p
TwoBars(first, second, p) ==
    /\ Len(bars) = 2
    /\ Len(agg) = 2
    /\ \E a, b \in 1..2 :
        /\ agg[a].id < agg[b].id
        /\ agg[a].volume = Units(first)
        /\ agg[b].volume = Units(second)
    /\ \A k \in 1..2 :
        /\ bars[k].n_trades = 1
        /\ bars[k].open = p /\ bars[k].close = p
        /\ bars[k].high = p /\ bars[k].low = p
        /\ bars[k].vwap = <<p, 1>>
        /\ bars[k].volume \in {Units(first), Units(second)}

\* C5 as stated: the scenario yields two bars, the first with volume 3 and the
\* second with volume 5.
C5_AsStated == C5_Scenario => TwoBars(3, 5, 3)

\* C5. Single-trade split scenario: volume_bars with bar_size = 5 on one trade
\* {price 3.0, size 8} yields exactly two bars, the first with volume 5 and the
\* second with volume 3, each with n_trades = 1 and
\* open = close = high = low = vwap = 3.0.
C5_SplitScenario == C5_Scenario => TwoBars(5, 3, 3)

C5_Witness == C5_Scenario /\ TwoBars(5, 3, 3)

Ceil(a, b) == (a + b - 1) \div b

\* the trades of partition p in the normalised frame
TradesOfPart(p) == SelectSeq(ohlcv, LAMBDA t : OverCols(t, split_by_date) = p)
BarsOfPart(p) == {k \in 1..Len(agg) : agg[k].part = p}

\* C6. Partial trailing bar: a non-empty partition of tick_bars, volume_bars
\* or dollar_bars yields ceil(total / bar_size) bars, total being its number
\* of trades for tick bars and its total metric otherwise, so its last,
\* incomplete group is emitted too.
C6_PartialBar ==
    driver \in {"tick", "volume", "dollar"} =>
        \A i \in 1..Len(ohlcv) :
            LET p == OverCols(ohlcv[i], split_by_date)
            IN  Cardinality(BarsOfPart(p)) =
                    IF driver = "tick"
                    THEN Ceil(Len(TradesOfPart(p)), bar_size)
                    ELSE Ceil(SumMetric(TradesOfPart(p)), Threshold)

(***************************************************************************)
(* The reference implementations of the tests (pandas)                     *)
(***************************************************************************)
RECURSIVE SetToSeq(_)
SetToSeq(S) ==
    IF S = {} THEN <<>>
    ELSE LET x == CHOOSE y \in S : TRUE IN <<x>> \o SetToSeq(S \ {x})

\* the NamedAgg aggregation over the trades g of one group, then vwap / volume
RefAgg(g) ==
    LET prices == {g[k].price : k \in 1..Len(g)}
        volume == SumSeq([k \in 1..Len(g) |-> g[k].size])
        pvt    == SumSeq([k \in 1..Len(g) |-> g[k].price * g[k].size])
    IN  [symbol   |-> g[1].symbol,
         start    |-> g[1].ts,
         end      |-> g[Len(g)].ts,
         n_trades |-> Len(g),
         open     |-> g[1].price,
         high     |-> CHOOSE p \in prices : \A q \in prices : q <= p,
         low      |-> CHOOSE p \in prices : \A q \in prices : q >= p,
         close    |-> g[Len(g)].price,
         volume   |-> volume,
         vwap     |-> Ratio(pvt, volume)]

\* df.groupby(keys).agg(...) over the sorted frame f, key[i] the key of row i
RefGroupBy(f, key) ==
    LET keys == SetToSeq({key[i] : i \in 1..Len(f)})
    IN  [j \in 1..Len(keys) |->
            LET ids == SelectSeq(Idx(f), LAMBDA i : key[i] = keys[j])
            IN  RefAgg([m \in 1..Len(ids) |-> f[ids[m]]])]

\* groupby(["symbol", "date"]).cumcount() of row i
RefCumCount(f, i) ==
    Cardinality({j \in 1..i - 1 :
        f[j].symbol = f[i].symbol /\ DateOf(f[j].ts) = DateOf(f[i].ts)})

pandas_tick_bars(f, n_ticks) ==
    RefGroupBy(f, [i \in 1..Len(f) |->
                    <<DateOf(f[i].ts), RefCumCount(f, i) \div n_ticks, f[i].symbol>>])

pandas_time_bars(f, period) ==
    RefGroupBy(f, [i \in 1..Len(f) |-> <<Truncate(f[i].ts, period), f[i].symbol>>])

\* the while loop of step 2: one remainder row per further bar of the trade
RECURSIVE RefRemainders(_, _, _, _)
RefRemainders(row, remaining_volume, current_bar_id, volume_threshold) ==
    IF remaining_volume <= 0 THEN <<>>
    ELSE LET amount_for_this_bar == Min2(remaining_volume, volume_threshold)
         IN  <<[row EXCEPT !.size = amount_for_this_bar, !.id = current_bar_id]>>
             \o RefRemainders(row, remaining_volume - amount_for_this_bar,
                              current_bar_id + 1, volume_threshold)

\* steps 1 to 3 for row i of the sorted frame f: the initial row, then its
\* remainder rows right after it, size replaced by the amount
RefExpandRow(f, i, volume_threshold, by_date) ==
    LET part == IF by_date THEN <<f[i].symbol, DateOf(f[i].ts)>>
                ELSE <<f[i].symbol>>
        before == SelectSeq(SubSeq(f, 1, i - 1), LAMBDA t :
                    (IF by_date THEN <<t.symbol, DateOf(t.ts)>>
                     ELSE <<t.symbol>>) = part)
        cumvol_start == SumSeq([k \in 1..Len(before) |-> before[k].size])
        start_bar == cumvol_start \div volume_threshold
        remaining_capacity == volume_threshold - (cumvol_start % volume_threshold)
        amount_for_current_bar == Min2(f[i].size, remaining_capacity)
        row == [symbol |-> f[i].symbol, ts |-> f[i].ts, price |-> f[i].price,
                size |-> amount_for_current_bar, part |-> part, id |-> start_bar]
    IN  <<row>> \o RefRemainders(row, f[i].size - amount_for_current_bar,
                                 start_bar + 1, volume_threshold)

RECURSIVE RefExpand(_, _, _, _)
RefExpand(f, i, volume_threshold, by_date) ==
    IF i > Len(f) THEN <<>>
    ELSE RefExpandRow(f, i, volume_threshold, by_date)
         \o RefExpand(f, i + 1, volume_threshold, by_date)

pandas_volume_bars(f, volume_threshold, by_date) ==
    LET expanded == RefExpand(f, 1, volume_threshold, by_date)
    IN  RefGroupBy(expanded,
                   [k \in 1..Len(expanded) |-> <<expanded[k].part, expanded[k].id>>])

\* assert_frame_equal(check_row_order=False): the same rows in some order
SameFrame(a, b) ==
    /\ Len(a) = Len(b)
    /\ \E p \in Orderings(Len(a)) : \A i \in 1..Len(a) : a[i] = b[p[i]]

NoNulls == \A i \in 1..Len(df) : ~IsNull(df[i].price)

(***************************************************************************)
(* Properties of tick and time bars                                        *)
(***************************************************************************)
\* the number of trades before trade i in its partition
Ordinal(i) ==
    Cardinality({j \in 1..i - 1 :
        OverCols(ohlcv[j], split_by_date) = OverCols(ohlcv[i], split_by_date)})

\* every trade is one row, in the bar Ordinal div bar_size of its partition;
\* bars are full except the last of a partition, which is not empty
TickGrouping ==
    /\ Len(rows) = Len(ohlcv)
    /\ \A i \in 1..Len(ohlcv) :
        /\ Len(RowsOfTrade(i)) = 1
        /\ \E k \in 1..Len(agg) :
            /\ agg[k].part = OverCols(ohlcv[i], split_by_date)
            /\ agg[k].id = Ordinal(i) \div bar_size
            /\ GroupKey(RowsOfTrade(i)[1]) = GroupKey(agg[k])
    /\ \A k \in 1..Len(agg) :
        /\ agg[k].n_trades >= 1
        /\ agg[k].n_trades <= bar_size
        /\ HasLaterBar(agg[k]) => agg[k].n_trades = bar_size
    /\ SumSeq([k \in 1..Len(agg) |-> agg[k].n_trades]) = Len(ohlcv)

TradeAsBar(t) ==
    [symbol |-> t.symbol, start |-> t.ts, end |-> t.ts, open |-> t.price,
     high |-> t.price, low |-> t.price, close |-> t.price, vwap |-> <<t.price, 1>>,
     volume |-> t.size, n_trades |-> 1]

NonNullTrades == SelectSeq(df, LAMBDA t : t.price > 0)

\* C8. Tick bars with bar_size = 1 reproduce the trade stream one-for-one: one
\* bar per non-null-price trade, with the trade's timestamp as start and end,
\* its price as open, high, low, close and vwap, its size as volume and
\* n_trades = 1.
C8_OneForOne ==
    (driver = "tick" /\ bar_size = 1) =>
        SameFrame(bars, [i \in 1..Len(NonNullTrades) |-> TradeAsBar(NonNullTrades[i])])

C8_Witness ==
    /\ driver = "tick"
    /\ bar_size = 1
    /\ Len(df) = 2
    /\ Len(bars) = 1
    /\ C8_OneForOne

\* C9. Time-bar grouping: two non-null-price trades are in the same bar of
\* time_bars if and only if they have the same symbol and the same timestamp
\* truncated to bar_size; no trade is split, and the bars are the reference
\* aggregation over exactly those trades.
C9_TimeGrouping ==
    driver = "time" =>
        /\ Len(rows) = Len(ohlcv)
        /\ \A i \in 1..Len(ohlcv) : Len(RowsOfTrade(i)) = 1
        /\ \A i, j \in 1..Len(ohlcv) :
            (GroupKey(RowsOfTrade(i)[1]) = GroupKey(RowsOfTrade(j)[1]))
                <=> /\ ohlcv[i].symbol = ohlcv[j].symbol
                    /\ Truncate(ohlcv[i].ts, bar_size) = Truncate(ohlcv[j].ts, bar_size)
        /\ SameFrame(bars, pandas_time_bars(ohlcv, bar_size))

\* two trades of one symbol share a bar though their timestamps differ
C9_Witness ==
    /\ driver = "time"
    /\ Len(ohlcv) = 2
    /\ ohlcv[1].ts # ohlcv[2].ts
    /\ Len(bars) = 1
    /\ C9_TimeGrouping

\* C10. VWAP identity: for every bar of every driver vwap * volume is the sum
\* of price * size over the bar's contributing rows (with the split sizes for
\* volume and dollar bars) and volume is the sum of size over those rows.
C10_VwapIdentity ==
    Called =>
        \A k \in 1..Len(agg) :
            LET g == RowsOfBar(agg[k])
            IN  /\ agg[k].volume = SumSize(g)
                /\ agg[k].vwap[2] > 0
                /\ agg[k].vwap[1] * agg[k].volume =
                        agg[k].vwap[2] * SumPriceSize(g)

\* a dollar bar of two rows with different prices, one of them split
C10_Witness ==
    /\ driver = "dollar"
    /\ \E k \in 1..Len(agg) :
        /\ agg[k].n_trades = 2
        /\ agg[k].high # agg[k].low
        /\ \E i \in 1..Len(ohlcv) :
            /\ Len(RowsOfTrade(i)) = 2
            /\ GroupKey(RowsOfTrade(i)[2]) = GroupKey(agg[k])
    /\ C10_VwapIdentity

\* the trades with a row in bar b, and the bars of partition p in frame order
TradesOfBar(b) == {RowsOfBar(b)[k].idx : k \in 1..Len(RowsOfBar(b))}
BarSeqOfPart(p) == SelectSeq(agg, LAMBDA b : b.part = p)
\* the rows a split added for the trades of partition p
ExtraRows(p) ==
    SumSeq([i \in 1..Len(ohlcv) |->
        IF OverCols(ohlcv[i], split_by_date) = p
        THEN Len(RowsOfTrade(i)) - 1 ELSE 0])

\* C11. n_trades counts the contributing rows after splitting: every trade
\* with a row in a bar adds exactly 1 to the bar's n_trades, and for
\* volume_bars and dollar_bars the n_trades of a partition's bars sum to its
\* number of trades plus the number of rows the splits added.
C11_NTrades ==
    Called =>
        /\ \A k \in 1..Len(agg) :
            /\ agg[k].n_trades = Len(RowsOfBar(agg[k]))
            /\ agg[k].n_trades = Cardinality(TradesOfBar(agg[k]))
        /\ Splitting =>
            \A i \in 1..Len(ohlcv) :
                LET p == OverCols(ohlcv[i], split_by_date)
                    b == BarSeqOfPart(p)
                IN  SumSeq([k \in 1..Len(b) |-> b[k].n_trades]) =
                        Len(TradesOfPart(p)) + ExtraRows(p)

\* a volume bar counts two trades of one timestamp, the first a split remainder
C11_Witness ==
    /\ driver = "volume"
    /\ Len(ohlcv) = 2
    /\ ohlcv[1].ts = ohlcv[2].ts
    /\ Len(RowsOfTrade(1)) = 2
    /\ \E k \in 1..Len(agg) :
        /\ agg[k].n_trades = 2
        /\ agg[k].id = 1
    /\ ExtraRows(OverCols(ohlcv[1], split_by_date)) = 1
    /\ C11_NTrades

\* the trades before trade i of the normalised frame, in i's partition
EarlierInPart(i) ==
    SelectSeq(SubSeq(ohlcv, 1, i - 1), LAMBDA t :
        OverCols(t, split_by_date) = OverCols(ohlcv[i], split_by_date))

\* C12. Null-price rows are dropped before grouping, in all four drivers: the
\* normalised frame is the non-null-price trades of the input, so a null-price
\* row gives no row to any bar (no volume, n_trades, price or timestamp) and
\* advances neither the tick ordinal nor the running volume or dollar total
\* of its partition.
C12_NullsDropped ==
    Called =>
        /\ \E p \in Orderings(Len(NonNullTrades)) :
            ohlcv = [i \in 1..Len(NonNullTrades) |-> NonNullTrades[p[i]]]
        /\ \A k \in 1..Len(rows) :
            /\ ~IsNull(rows[k].price)
            /\ rows[k].idx \in 1..Len(ohlcv)
            /\ rows[k].ts = ohlcv[rows[k].idx].ts
            /\ rows[k].price = ohlcv[rows[k].idx].price
        /\ \A k \in 1..Len(bars) : ~IsNull(bars[k].low)
        /\ SumSeq([k \in 1..Len(bars) |-> bars[k].volume]) = SumSize(NonNullTrades)
        /\ SumSeq([k \in 1..Len(bars) |-> bars[k].n_trades]) = Len(rows)
        /\ driver = "tick" =>
            \A i \in 1..Len(ohlcv) :
                RowsOfTrade(i)[1].id = Len(EarlierInPart(i)) \div bar_size
        /\ Splitting =>
            \A i \in 1..Len(ohlcv) :
                RowsOfTrade(i)[1].id = SumMetric(EarlierInPart(i)) \div Threshold

\* a null-price trade ahead of a priced trade of its partition, which still
\* opens the partition's first volume bar
C12_Witness ==
    /\ driver = "volume"
    /\ Len(df) = 2
    /\ IsNull(df[1].price)
    /\ ~IsNull(df[2].price)
    /\ df[1].symbol = df[2].symbol
    /\ df[1].ts < df[2].ts
    /\ DateOf(df[1].ts) = DateOf(df[2].ts)
    /\ Len(ohlcv) = 1
    /\ rows[1].id = 0
    /\ bars[1].start = df[2].ts
    /\ C12_NullsDropped

\* the call names every required column, and the frame lacks one of them
LacksColumn ==
    /\ \A i \in 1..Len(column_args) : column_args[i] \in DOMAIN FuncKwargs(kwargs)
    /\ \E i \in 1..Len(column_args) : FuncKwargs(kwargs)[column_args[i]] \notin columns

\* C13. Missing-column failure: a call of any of the four drivers on a frame
\* that lacks one of the timestamp, price, size and symbol columns, as named
\* by the keyword arguments or their defaults, ends with the error of the
\* column check, raised before the driver body runs: nothing is normalised,
\* grouped or returned.
C13_MissingColumns ==
    (driver # "none" /\ LacksColumn) =>
        /\ raised = "ValueError"
        /\ ohlcv = <<>>
        /\ rows = <<>>
        /\ agg = <<>>
        /\ bars = <<>>

\* volume_bars with price_col = "px" on a frame of priced trades whose price
\* column is called "price"
C13_Witness ==
    /\ driver = "volume"
    /\ bar_size > 0
    /\ "price_col" \in DOMAIN kwargs
    /\ columns = DefaultColumns
    /\ Len(NonNullTrades) = 2
    /\ raised = "ValueError"
    /\ bars = <<>>
    /\ C13_MissingColumns

\* C14. Non-positive bar size is rejected at call time: a call of tick_bars,
\* volume_bars or dollar_bars with bar_size <= 0 on a frame that has the
\* required columns ends with an error and returns no bars.
C14_BadSizeRejected ==
    (/\ driver \in {"tick", "volume", "dollar"}
     /\ bar_size <= 0
     /\ validate_columns(columns, kwargs) = "none") =>
        /\ raised # "none"
        /\ bars = <<>>

\* C15. Empty input is not an error: a driver called on a frame with no
\* priced trade (no rows, or null prices only) returns normally with zero
\* bars, and every bar returned belongs to a partition that has a priced
\* trade and counts at least one row.
C15_EmptyInput ==
    driver # "none" =>
        /\ NonNullTrades = <<>> => (raised = "none" /\ bars = <<>>)
        /\ \A k \in 1..Len(agg) :
            /\ agg[k].n_trades >= 1
            /\ \E i \in 1..Len(NonNullTrades) :
                /\ NonNullTrades[i].symbol = agg[k].symbol
                /\ agg[k].part =
                    OverCols(NonNullTrades[i], split_by_date /\ driver # "time")
        /\ Len(bars) = Len(agg)

\* dollar_bars on two trades that both have a null price
C15_Witness ==
    /\ driver = "dollar"
    /\ Len(df) = 2
    /\ NonNullTrades = <<>>
    /\ raised = "none"
    /\ bars = <<>>
    /\ C15_EmptyInput

\* C16. Output order: the bars a driver returns are the grouped bars, sorted
\* by <timestamp>_end ascending across all partitions.
C16_SortedByEnd ==
    Called =>
        /\ \A k \in 1..Len(bars) - 1 : bars[k].end <= bars[k + 1].end
        /\ \E p \in Orderings(Len(agg)) :
            bars = [k \in 1..Len(agg) |-> DropKeys(agg[p[k]])]

\* the grouped frame of a volume_bars run has a later end ahead of an earlier
\* one, from two partitions, and the returned frame has them in order
C16_Witness ==
    /\ driver = "volume"
    /\ Len(agg) = 3
    /\ agg[2].end > agg[3].end
    /\ agg[2].symbol # agg[3].symbol
    /\ bars[1].end < bars[3].end
    /\ C16_SortedByEnd

(***************************************************************************)
(* Properties of Config                                                    *)
(***************************************************************************)
\* what Config.get returns now, and the named default of a key
Now(k) == Get(config_context, k)
Default(k) == DEFAULT_COLUMN_NAMES[ColumnKey(k)]
Innermost == scopes[Len(scopes)]

\* C17. Scoped configuration is restored on scope exit: on entry of a
\* with-block Config.get returns the block's value for each of its options,
\* and when the block is left, normally or by an exception, the exit raises
\* nothing and Config.get returns for every key what it returned just before
\* the block was entered.
C17_ScopeRestored ==
    /\ last.op = "enter" =>
        \A k \in DOMAIN options[Innermost.inst] :
            Now(k) = options[Innermost.inst][k]
    /\ last.op = "exit" =>
        /\ last.raised = "none"
        /\ View(config_context) = last.view

\* a block left by an exception, in which a Config.set had changed a key: the
\* key is back to its value of before the block
C17_Witness ==
    /\ last.op = "exit"
    /\ last.exc
    /\ scopes = <<>>
    /\ \E k \in Keys :
        /\ last_set[k].exited
        /\ last_set[k].name # Now(k)
        /\ Now(k) # Default(k)
    /\ C17_ScopeRestored

\* C18. Independent override with default fallback: while nothing but
\* Config.set and the set_<name>_column methods was called since the last
\* reset (or since the import), Config.get of a key returns the name most
\* recently set for that key, or the named default if none was set; so the
\* set of one key leaves the other keys as they were.
C18_IndependentOverride ==
    only_sets =>
        \A k \in Keys :
            Now(k) = IF last_set[k].name # "" THEN last_set[k].name ELSE Default(k)

\* set_open_column was called and close_column never set
C18_Witness ==
    /\ only_sets
    /\ last.op = "set_column"
    /\ last_set["open_column"].name = "c"
    /\ last_set["close_column"].name = ""
    /\ Now("close_column") = "close"
    /\ after_reset = "no"
    /\ C18_IndependentOverride

\* a with-block entered after the latest Config.set of k, still open, has k
\* among its options
OverriddenAbove(k) ==
    \E j \in (last_set[k].depth + 1)..Len(scopes) :
        k \in DOMAIN options[scopes[j].inst]

C20_AsStated ==
    after_reset # "no" =>
        \A k \in Keys :
            (\A j \in 1..Len(scopes) : k \notin DOMAIN options[scopes[j].inst]) =>
                Now(k) = Default(k)

\* C20. Config.reset restores the defaults inside the innermost open
\* with-block: immediately after Config.reset() Config.get returns the named
\* default for every key, whatever was set before; the exit of a with-block
\* that was open when reset was called puts every key back to its value of
\* before that block.
C20_ResetToDefaults ==
    /\ after_reset = "immediately" => \A k \in Keys : Now(k) = Default(k)
    /\ after_reset = "exits" => View(config_context) = last.view

\* reset called in a block entered under a configuration that was not the
\* default one
C20_Witness ==
    /\ after_reset = "immediately"
    /\ Len(scopes) = 1
    /\ \E k \in Keys : scopes[1].before[k] # Default(k)
    /\ \E k \in Keys : k \notin DOMAIN options[scopes[1].inst]
    /\ C20_ResetToDefaults

\* C21. Lookup forms agree: in every configuration state and for every
\* recognised column name n, column_names.n, column_names.n_column and
\* Config.get("n_column") return the same string, which is the configured
\* name of n_column if there is one and the default of n otherwise.
C21_LookupFormsAgree ==
    \A n \in DOMAIN DEFAULT_COLUMN_NAMES :
        /\ ColumnNamesGetattr(config_context, n) = Now(WithColumn(n))
        /\ ColumnNamesGetattr(config_context, WithColumn(n)) = Now(WithColumn(n))
        /\ Now(WithColumn(n)) =
            IF WithColumn(n) \in DOMAIN ContextGet(config_context)
            THEN ContextGet(config_context)[WithColumn(n)]
            ELSE DEFAULT_COLUMN_NAMES[n]

\* open_column is configured inside a with-block and close_column is not
C21_Witness ==
    /\ Len(scopes) = 1
    /\ last.op = "set_column"
    /\ ColumnNamesGetattr(config_context, "open") = "c"
    /\ ColumnNamesGetattr(config_context, "open_column") = "c"
    /\ Now("open_column") = "c"
    /\ ColumnNamesGetattr(config_context, "close") = "close"
    /\ C21_LookupFormsAgree

(***************************************************************************)
(* Properties of the splitter                                              *)
(***************************************************************************)
\* the groups the rows of trade i are in, the first and the last of them
IdsOfTrade(i) == {RowsOfTrade(i)[k].id : k \in 1..Len(RowsOfTrade(i))}
FirstId(i) == CHOOSE g \in IdsOfTrade(i) : \A h \in IdsOfTrade(i) : g <= h
LastId(i) == CHOOSE g \in IdsOfTrade(i) : \A h \in IdsOfTrade(i) : g >= h
\* the metric of the trades of i's partition up to and including trade i
RunningTotal(i) == SumMetric(EarlierInPart(i)) + Metric(ohlcv[i])
\* trade j is the trade after trade i in i's partition
NextInPart(i, j) ==
    /\ i < j
    /\ OverCols(ohlcv[i], split_by_date) = OverCols(ohlcv[j], split_by_date)
    /\ \A m \in (i + 1)..(j - 1) :
        OverCols(ohlcv[m], split_by_date) # OverCols(ohlcv[i], split_by_date)

\* C22. Contiguous multi-bar split: volume_bars allocates a trade to the
\* consecutive groups from the one it starts in, one row per group, no group
\* skipped and no row of more than bar_size; the groups never decrease along
\* the trades of a partition, and the next trade starts in the group where
\* the allocation of the one before ended, or in the following group if that
\* group was filled exactly.
C22_ContiguousSplit ==
    driver = "volume" =>
        /\ \A i \in 1..Len(ohlcv) :
            /\ IdsOfTrade(i) = FirstId(i)..LastId(i)
            /\ Cardinality(IdsOfTrade(i)) = Len(RowsOfTrade(i))
            /\ \A k \in 1..Len(RowsOfTrade(i)) :
                RowsOfTrade(i)[k].size <= Threshold
            /\ SumSize(RowsOfTrade(i)) = ohlcv[i].size
        /\ \A i, j \in 1..Len(ohlcv) :
            NextInPart(i, j) =>
                FirstId(j) = IF RunningTotal(i) % Threshold = 0
                             THEN LastId(i) + 1
                             ELSE LastId(i)

\* trade i exactly fills the group it starts in
FillsExactly(i) ==
    Metric(ohlcv[i]) = Threshold - (SumMetric(EarlierInPart(i)) % Threshold)

\* C23. No zero-amount split: in volume_bars and dollar_bars a trade that
\* exactly fills the group it starts in gives exactly one row, in that group,
\* and the next trade of the partition starts a fresh group; no row has size
\* 0 and no bar has volume 0.
C23_NoZeroAmount ==
    Splitting =>
        /\ \A k \in 1..Len(rows) : rows[k].size > 0
        /\ \A k \in 1..Len(bars) : bars[k].volume > 0
        /\ \A i \in 1..Len(ohlcv) :
            FillsExactly(i) =>
                /\ Len(RowsOfTrade(i)) = 1
                /\ RowsOfTrade(i)[1].id = SumMetric(EarlierInPart(i)) \div Threshold
                /\ RowsOfTrade(i)[1].size = ohlcv[i].size
                /\ \A j \in 1..Len(ohlcv) :
                    NextInPart(i, j) =>
                        /\ FirstId(j) = RowsOfTrade(i)[1].id + 1
                        /\ \A m \in 1..Len(ohlcv) :
                            (m # j /\ OverCols(ohlcv[m], split_by_date) =
                                        OverCols(ohlcv[j], split_by_date)) =>
                                FirstId(j) \notin IdsOfTrade(m)

\* a dollar bar filled exactly by the first of two trades of one partition,
\* at a price other than 1; the second trade opens the next bar
C23_Witness ==
    /\ driver = "dollar"
    /\ Len(ohlcv) = 2
    /\ NextInPart(1, 2)
    /\ FillsExactly(1)
    /\ ohlcv[1].price > 1
    /\ Len(rows) = 2
    /\ Len(bars) = 2
    /\ FirstId(2) = 1
    /\ C23_NoZeroAmount

\* C24. volume_bars agrees with its reference implementation: on a frame
\* without null prices, for every bar_size and both values of split_by_date,
\* volume_bars returns the bars of pandas_volume_bars over the same sorted
\* frame, in some order.
C24_AgreesWithReference ==
    (driver = "volume" /\ NoNulls) =>
        SameFrame(bars, pandas_volume_bars(ohlcv, Threshold, split_by_date))

\* what is left of the group trade i starts in when it starts
Capacity(i) == Threshold - (SumMetric(EarlierInPart(i)) % Threshold)

\* C25. Splitting changes only size: every row the volume_bars splitter
\* derives from a trade carries the trade's price, timestamp, symbol and
\* partition; the size of its first row is the amount its group takes, and a
\* trade that fits in its group passes through as one row with its own size.
C25_OnlySizeChanges ==
    driver = "volume" =>
        /\ \A k \in 1..Len(rows) :
            /\ rows[k].idx \in 1..Len(ohlcv)
            /\ rows[k].price = ohlcv[rows[k].idx].price
            /\ rows[k].ts = ohlcv[rows[k].idx].ts
            /\ rows[k].symbol = ohlcv[rows[k].idx].symbol
            /\ rows[k].part = OverCols(ohlcv[rows[k].idx], split_by_date)
        /\ \A i \in 1..Len(ohlcv) :
            /\ Len(RowsOfTrade(i)) >= 1
            /\ RowsOfTrade(i)[1].size = Min2(ohlcv[i].size, Capacity(i))
            /\ ohlcv[i].size <= Capacity(i) =>
                /\ Len(RowsOfTrade(i)) = 1
                /\ RowsOfTrade(i)[1].size = ohlcv[i].size

\* a split trade and a trade that fits, of different prices and timestamps
C25_Witness ==
    /\ driver = "volume"
    /\ Len(ohlcv) = 2
    /\ ohlcv[1].price # ohlcv[2].price
    /\ ohlcv[1].ts # ohlcv[2].ts
    /\ Len(RowsOfTrade(1)) = 1
    /\ Len(RowsOfTrade(2)) = 2
    /\ RowsOfTrade(2)[2].size < ohlcv[2].size
    /\ C25_OnlySizeChanges

DriverRows(f) ==
    CASE driver = "tick" -> TickRows(f, bar_size, split_by_date)
      [] driver = "volume" -> SplitRows(VolumeGroups(f, bar_size, split_by_date))
      [] driver = "dollar" -> SplitRows(DollarGroups(f, bar_size, split_by_date))
      [] OTHER -> TimeRows(f, bar_size)
\* the partitions of the normalised frame
Parts == {OverCols(ohlcv[i], split_by_date) : i \in 1..Len(ohlcv)}
\* the input frame without the rows of the other partitions
InputOfPart(p) == SelectSeq(df, LAMBDA t : OverCols(t, split_by_date) = p)
\* the bars of a call on the trades of partition p alone, in p's order
AloneBars(p) == GroupByAgg(DriverRows(TradesOfPart(p)))

\* C27. Partition independence: in tick_bars, volume_bars and dollar_bars the
\* bars of a partition are the bars the same call yields on the rows of that
\* partition alone, whatever the other partitions hold and wherever their rows
\* stand in the input, and the returned frame holds these bars and no others.
C27_PartitionIndependence ==
    (Called /\ driver \in {"tick", "volume", "dollar"}) =>
        /\ \A p \in Parts :
            /\ TradesOfPart(p) \in SortOutcomes(DropNulls(InputOfPart(p)))
            /\ BarSeqOfPart(p) = AloneBars(p)
        /\ {bars[k] : k \in 1..Len(bars)} =
               UNION {{DropKeys(AloneBars(p)[k]) : k \in 1..Len(AloneBars(p))} :
                        p \in Parts}

\* a trade of another partition stands before a trade of this one, and would
\* have moved it to a later group had it been counted
C27_Witness ==
    /\ Called
    /\ driver \in {"tick", "volume", "dollar"}
    /\ Len(ohlcv) = 2
    /\ OverCols(ohlcv[1], split_by_date) # OverCols(ohlcv[2], split_by_date)
    /\ ohlcv[1].symbol = ohlcv[2].symbol
    /\ IF driver = "tick" THEN bar_size = 1
       ELSE Metric(ohlcv[1]) >= Threshold /\ Metric(ohlcv[2]) <= Threshold
    /\ \A k \in 1..Len(rows) : rows[k].idx = 2 => rows[k].id = 0
    /\ C27_PartitionIndependence

\* C28. Bars are ordered in time: every bar starts no later than it ends, and
\* within a partition the bar of group g ends no later than the bar of group
\* g + 1 starts.
C28_BarsOrderedInTime ==
    Called =>
        /\ \A k \in 1..Len(bars) : bars[k].start <= bars[k].end
        /\ \A j, k \in 1..Len(agg) :
            (agg[j].part = agg[k].part /\ agg[k].id = agg[j].id + 1)
                => agg[j].end <= agg[k].start

\* the bars returned for symbol s, and the non-null-price input trades of s
BarsOfSymbol(s) == SelectSeq(bars, LAMBDA b : b.symbol = s)
InputOfSymbol(s) == SelectSeq(df, LAMBDA t : t.symbol = s /\ ~IsNull(t.price))
SumVolume(s) == SumSeq([k \in 1..Len(s) |-> s[k].volume])

\* C29. Total volume is preserved by every driver: for each symbol the
\* volumes of the returned bars add up to the sizes of the symbol's
\* non-null-price input trades.
C29_VolumePreserved ==
    Called =>
        \A s \in Symbols :
            SumVolume(BarsOfSymbol(s)) = SumSize(InputOfSymbol(s))

\* a split trade, a null-price row and a second symbol in one run
C29_Witness ==
    /\ Called
    /\ Splitting
    /\ Len(df) = 2
    /\ \E i \in 1..Len(df) : IsNull(df[i].price)
    /\ Len(rows) = 2
    /\ Len(bars) = 2
    /\ C29_VolumePreserved

\* C30. Config scopes nest: whatever the nesting of scope entries and exits,
\* the re-entry of an instance that is already active included, every exit
\* raises nothing and leaves Config.get returning for every key what it
\* returned just before the matching entry.
C30_ScopesNest ==
    last.op = "exit" =>
        /\ last.raised = "none"
        /\ \A k \in Keys : Now(k) = last.view[k]
====
